---- MODULE Spec2Model ----
(***************************************************************************)
(* Live Tracking Service (services/live-tracking).                         *)
(*                                                                         *)
(* The model follows main.rs: the start-up sequence of main, the           *)
(* background tasks spawned by start_background_tasks, and the warp route  *)
(* table of setup_routes with the handlers of src/handlers.rs.  The        *)
(* history variables `served`, `last`, `submitted`, `fence`, `conn` and    *)
(* `reads` record what the clients of the service have observed; the       *)
(* program itself keeps no request state.                                  *)
(***************************************************************************)
EXTENDS Integers, Sequences, FiniteSets, TLC

VARIABLES pc, err, config, bg, tasks, served, last, submitted, fence, conn, reads

vars == <<pc, err, config, bg, tasks, served, last, submitted, fence, conn, reads>>

progVars == <<pc, err, config, bg, tasks>>

(* number of requests a behaviour of the model serves *)
MaxRequests == 3

-----------------------------------------------------------------------------
(* Config::from_env                                                        *)

Unset == [set |-> FALSE]

Set(v) == [set |-> TRUE, value |-> v]

DigitChars == <<"0", "1", "2", "3", "4", "5", "6", "7", "8", "9">>

IsDigit(c) == \E i \in 1..10 : DigitChars[i] = c

DigitVal(c) == (CHOOSE i \in 1..10 : DigitChars[i] = c) - 1

U16Max == 65535

ParseError == -1

RECURSIVE ParseDigits(_, _)
(* checked accumulation of decimal digits, ParseError on a non-digit or
   on overflow of u16 *)
ParseDigits(s, acc) ==
    IF s = <<>> THEN acc
    ELSE IF ~IsDigit(Head(s)) THEN ParseError
    ELSE LET v == acc * 10 + DigitVal(Head(s))
         IN  IF v > U16Max THEN ParseError ELSE ParseDigits(Tail(s), v)

(* str::parse::<u16>: empty input, a lone sign, a non-digit and a value
   above u16::MAX are errors; a leading '+' is accepted, '-' is not *)
ParseU16(s) ==
    IF s = <<>> THEN ParseError
    ELSE IF Head(s) = "+"
         THEN IF Len(s) = 1 THEN ParseError ELSE ParseDigits(Tail(s), 0)
         ELSE ParseDigits(s, 0)

DefaultPort == <<"8", "0", "9", "9">>

(* values of the PORT environment variable *)
PortEnv ==
    { Unset,
      Set(<<"8", "0", "9", "9">>),
      Set(<<"+", "8", "0">>),
      Set(<<"6", "5", "5", "3", "6">>),
      Set(<<"a", "b", "c">>),
      Set(<<"-", "1">>),
      Set(<<"+">>),
      Set(<<>>) }

DefaultRedisUrl == [scheme |-> "redis", host |-> "redis"]

(* values of the REDIS_URL environment variable *)
RedisUrlEnv ==
    { Unset,
      Set([scheme |-> "redis", host |-> "redis"]),
      Set([scheme |-> "http", host |-> "redis"]),
      Set([scheme |-> "redis", host |-> ""]) }

NoConfig == [port |-> ParseError, redis_url |-> [scheme |-> "", host |-> ""]]

FromEnv(portVar, redisVar) ==
    [port      |-> ParseU16(IF portVar.set THEN portVar.value ELSE DefaultPort),
     redis_url |-> IF redisVar.set THEN redisVar.value ELSE DefaultRedisUrl]

(* redis::Client::open accepts a URL with a redis scheme and a host *)
RedisOpenOk(url) ==
    /\ url.scheme \in {"redis", "rediss"}
    /\ url.host # ""

-----------------------------------------------------------------------------
(* requests                                                                *)

NoBody == [kind |-> "none"]
BadJson == [kind |-> "badjson"]

Sample(e, lat, lon, t) ==
    [kind |-> "sample", user_id |-> e, latitude |-> lat, longitude |-> lon,
     timestamp |-> t]

Samples ==
    { Sample("e1", 0, 0, 1),
      Sample("e1", 0, 1, 2),
      Sample("e1", 95, 0, 3),
      Sample("e2", 0, 0, 1) }

Circle == [kind |-> "circle", latitude |-> 0, longitude |-> 0, radius |-> 100]

Req(m, p, b, u, q) ==
    [method |-> m, path |-> p, body |-> b, upgrade |-> u, query |-> q]

TrackPath == <<"api", "v1", "track", "location">>

Requests ==
    { Req("GET", <<>>, NoBody, FALSE, ""),
      Req("GET", <<"health">>, NoBody, FALSE, ""),
      Req("POST", <<"health">>, NoBody, FALSE, ""),
      Req("GET", <<"health", "ready">>, NoBody, FALSE, ""),
      Req("POST", TrackPath, BadJson, FALSE, ""),
      Req("GET", <<"api", "v1", "location", "e1">>, NoBody, FALSE, ""),
      Req("GET", <<"api", "v1", "location", "e2">>, NoBody, FALSE, ""),
      Req("GET", <<"api", "v1", "location", "e1", "history">>, NoBody, FALSE, ""),
      Req("GET", <<"api", "v1", "location", "e1", "history">>, NoBody, FALSE, "page=2"),
      Req("GET", <<"api", "v1", "location", "e2", "history">>, NoBody, FALSE, ""),
      Req("POST", <<"api", "v1", "routes", "optimize">>, Circle, FALSE, ""),
      Req("GET", <<"api", "v1", "routes", "optimize">>, NoBody, FALSE, ""),
      Req("GET", <<"api", "v1", "routes", "r1">>, NoBody, FALSE, ""),
      Req("GET", <<"api", "v1", "analytics">>, NoBody, FALSE, "page=2"),
      Req("POST", <<"api", "v1", "geofences">>, Circle, FALSE, ""),
      Req("GET", <<"api", "v1", "geofences">>, NoBody, FALSE, ""),
      Req("GET", <<"ws", "tracking", "e1">>, NoBody, TRUE, ""),
      Req("GET", <<"ws", "tracking", "e1">>, NoBody, FALSE, ""),
      Req("GET", <<"metrics">>, NoBody, FALSE, ""),
      Req("GET", <<"metrics", "x">>, NoBody, FALSE, ""),
      Req("GET", <<"nope">>, NoBody, FALSE, "") }
    \cup { Req("POST", TrackPath, s, FALSE, "") : s \in Samples }

-----------------------------------------------------------------------------
(* setup_routes                                                            *)

Param == "{String}"

Route(n, pat, ex, m, ext) ==
    [name |-> n, pattern |-> pat, exact |-> ex, method |-> m, extract |-> ext]

(* the filters in the order of the or-chain; exact is FALSE for
   warp::path(..), which matches a leading segment, and TRUE for
   warp::path!(..) and warp::path::end(), which match the whole path.
   The cors and trace wrappers leave the choice of the handler of a GET or
   POST request unchanged and are not modelled. *)
Routes ==
    << Route("root", <<>>, TRUE, "GET", "none"),
       Route("health_check", <<"health">>, FALSE, "GET", "none"),
       Route("readiness_check", <<"health", "ready">>, TRUE, "GET", "none"),
       Route("track_location", <<"api", "v1", "track", "location">>, TRUE, "POST", "json"),
       Route("get_current_location", <<"api", "v1", "location", Param>>, TRUE, "GET", "none"),
       Route("get_location_history", <<"api", "v1", "location", Param, "history">>, TRUE, "GET", "query"),
       Route("optimize_route", <<"api", "v1", "routes", "optimize">>, TRUE, "POST", "json"),
       Route("get_route", <<"api", "v1", "routes", Param>>, TRUE, "GET", "none"),
       Route("get_analytics", <<"api", "v1", "analytics">>, TRUE, "GET", "query"),
       Route("create_geofence", <<"api", "v1", "geofences">>, TRUE, "POST", "json"),
       Route("get_geofences", <<"api", "v1", "geofences">>, TRUE, "GET", "query"),
       Route("tracking_websocket", <<"ws", "tracking", Param>>, TRUE, "GET", "ws"),
       Route("prometheus_metrics", <<"metrics">>, FALSE, "GET", "none") >>

PathMatches(r, path) ==
    /\ IF r.exact THEN Len(path) = Len(r.pattern) ELSE Len(path) >= Len(r.pattern)
    /\ \A i \in 1..Len(r.pattern) :
          i <= Len(path) /\ (r.pattern[i] = Param \/ r.pattern[i] = path[i])

(* warp::body::json() into serde_json::Value, warp::query() into a map of
   strings, warp::ws() *)
ExtractOk(r, req) ==
    CASE r.extract = "json" -> req.body.kind \notin {"none", "badjson"}
      [] r.extract = "ws"   -> req.upgrade
      [] OTHER              -> TRUE

RouteMatches(r, req) ==
    /\ PathMatches(r, req.path)
    /\ r.method = req.method
    /\ ExtractOk(r, req)

NoRoute == "rejected"

RECURSIVE FirstMatch(_, _)
(* a.or(b): b is tried only when a rejects, so the first filter of the
   chain that matches answers *)
FirstMatch(i, req) ==
    IF i > Len(Routes) THEN NoRoute
    ELSE IF RouteMatches(Routes[i], req) THEN Routes[i].name
    ELSE FirstMatch(i + 1, req)

Dispatch(req) == FirstMatch(1, req)

(* the reply warp builds from the rejections of the whole chain *)
RejectionStatus(req) ==
    IF \E i \in 1..Len(Routes) :
          PathMatches(Routes[i], req.path) /\ Routes[i].method = req.method
    THEN 400
    ELSE IF \E i \in 1..Len(Routes) : PathMatches(Routes[i], req.path)
         THEN 405
         ELSE 404

-----------------------------------------------------------------------------
(* handlers                                                                *)

Ok(body) == [status |-> 200, body |-> body]

Message(m) == Ok([message |-> m])

root == Ok([service |-> "Suuupra Live Tracking Service", version |-> "1.0.0",
            status |-> "running"])

health_check == Ok([status |-> "healthy", service |-> "live-tracking"])

readiness_check(state) == Ok([status |-> "ready", service |-> "live-tracking"])

(* a submission that echoes the body it received *)
track_location_echo(data, state) ==
    Ok([message |-> "Location tracked", location |-> data])

track_location(data, state) == Message("Location tracked")

(* a read that numbers its replies *)
get_current_location_counting(user_id, state) ==
    Ok([message |-> "Location retrieved", request |-> served])

get_current_location(user_id, state) == Message("Location retrieved")

get_location_history(user_id, query, state) == Message("Location history retrieved")

optimize_route(data, state) == Message("Route optimized")

get_route(route_id, state) == Message("Route retrieved")

get_analytics(query, state) == Message("Analytics retrieved")

create_geofence(data, state) == Message("Geofence created")

get_geofences(query, state) == Message("Geofences retrieved")

tracking_websocket(user_id, ws, state) == Message("WebSocket connection established")

prometheus_metrics == Ok([text |-> "# Prometheus metrics placeholder"])

(* the reply of the handler h to the request req under the AppState state *)
Respond(h, req, state) ==
    CASE h = "root"                 -> root
      [] h = "health_check"         -> health_check
      [] h = "readiness_check"      -> readiness_check(state)
      [] h = "track_location"       -> track_location(req.body, state)
      [] h = "get_current_location" -> get_current_location(req.path[4], state)
      [] h = "get_location_history" -> get_location_history(req.path[4], req.query, state)
      [] h = "optimize_route"       -> optimize_route(req.body, state)
      [] h = "get_route"            -> get_route(req.path[4], state)
      [] h = "get_analytics"        -> get_analytics(req.query, state)
      [] h = "create_geofence"      -> create_geofence(req.body, state)
      [] h = "get_geofences"        -> get_geofences(req.query, state)
      [] h = "tracking_websocket"   -> tracking_websocket(req.path[3], req.upgrade, state)
      [] h = "prometheus_metrics"   -> prometheus_metrics
      [] OTHER -> [status |-> RejectionStatus(req), body |-> [message |-> "rejected"]]

(* frames the server has queued or sent on the connection of a WebSocket
   request: the handler replies with JSON and never calls on_upgrade *)
SubscriberStream(c) == <<>>

(* geofence transition events the service emits: start_geofence_monitoring
   has an empty body and no handler evaluates a geofence *)
GeofenceEventsEmitted == <<>>

-----------------------------------------------------------------------------
(* state                                                                   *)

TaskNames == {"start_data_aggregation", "start_processing", "start_geofence_monitoring"}

NoRequest == [seq |-> 0]

NoFence == [since |-> -1]

NoConn == [since |-> -1]

Entities == {"e1", "e2"}

NoRead == [n |-> 0]

Init ==
    /\ pc = "start"
    /\ err = "none"
    /\ config = NoConfig
    /\ bg = "unspawned"
    /\ tasks = [t \in TaskNames |-> "unspawned"]
    /\ served = 0
    /\ last = NoRequest
    /\ submitted = <<>>
    /\ fence = NoFence
    /\ conn = NoConn
    /\ reads = [e \in Entities |-> NoRead]

observed == <<served, last, submitted, fence, conn, reads>>

(* main: Config::from_env()? *)
LoadConfig ==
    /\ pc = "start"
    /\ \E p \in PortEnv, r \in RedisUrlEnv :
          LET c == FromEnv(p, r)
          IN  IF c.port = ParseError
              THEN /\ pc' = "exited"
                   /\ err' = "ParseIntError"
                   /\ config' = config
              ELSE /\ pc' = "config"
                   /\ err' = err
                   /\ config' = c
    /\ UNCHANGED <<bg, tasks, observed>>

(* the pool creation without the `?`: main goes on after a failed
   connection *)
CreatePoolUnchecked ==
    /\ pc = "config"
    /\ \E connected \in BOOLEAN :
          /\ pc' = "pool"
          /\ err' = IF connected THEN err ELSE "sqlx::Error"
    /\ UNCHANGED <<config, bg, tasks, observed>>

(* main: database::create_pool(..).await?, the outcome of the connection
   is the database's *)
CreatePool ==
    /\ pc = "config"
    /\ \E connected \in BOOLEAN :
          IF connected
          THEN pc' = "pool" /\ err' = err
          ELSE pc' = "exited" /\ err' = "sqlx::Error"
    /\ UNCHANGED <<config, bg, tasks, observed>>

(* database::run_migrations returns Ok(()) *)
run_migrations == TRUE

(* main: database::run_migrations(..).await? *)
RunMigrations ==
    /\ pc = "pool"
    /\ IF run_migrations
       THEN pc' = "migrated" /\ err' = err
       ELSE pc' = "exited" /\ err' = "sqlx::Error"
    /\ UNCHANGED <<config, bg, tasks, observed>>

(* main: redis::Client::open(config.redis_url)? *)
OpenRedis ==
    /\ pc = "migrated"
    /\ IF RedisOpenOk(config.redis_url)
       THEN pc' = "redis" /\ err' = err
       ELSE pc' = "exited" /\ err' = "RedisError"
    /\ UNCHANGED <<config, bg, tasks, observed>>

(* main: the services and the AppState are built, then
   tokio::spawn(start_background_tasks(..)) *)
SpawnBackground ==
    /\ pc = "redis"
    /\ pc' = "spawned"
    /\ bg' = "spawned"
    /\ UNCHANGED <<err, config, tasks, observed>>

(* main: setup_routes and warp::serve(..).run(..) *)
StartServer ==
    /\ pc = "spawned"
    /\ pc' = "serving"
    /\ UNCHANGED <<err, config, bg, tasks, observed>>

(* start_background_tasks has no await: one poll spawns the three tasks *)
start_background_tasks ==
    /\ bg = "spawned"
    /\ bg' = "started"
    /\ tasks' = [t \in TaskNames |-> "spawned"]
    /\ UNCHANGED <<pc, err, config, observed>>

(* the service method a spawned task awaits: an empty body *)
ServiceMethod(t) == UNCHANGED <<pc, err, config, bg, observed>>

RunTask(t) ==
    /\ tasks[t] = "spawned"
    /\ ServiceMethod(t)
    /\ tasks' = [tasks EXCEPT ![t] = "done"]

(* the server answers one request *)
Serve(req) ==
    /\ pc = "serving"
    /\ served < MaxRequests
    /\ \E h \in {Dispatch(req)} : \E resp \in {Respond(h, req, config)} :
           /\ served' = served + 1
           /\ last' = [seq |-> served + 1, req |-> req, handler |-> h, resp |-> resp]
           /\ submitted' = IF h = "track_location" /\ resp.status = 200
                           THEN Append(submitted, req.body)
                           ELSE submitted
           /\ fence' = IF h = "create_geofence" /\ resp.status = 200 /\ fence = NoFence
                       THEN [since |-> Len(submitted), shape |-> req.body]
                       ELSE fence
           /\ conn' = IF h = "tracking_websocket" /\ resp.status = 200 /\ conn = NoConn
                      THEN [since |-> Len(submitted), entity |-> req.path[3]]
                      ELSE conn
           /\ reads' = IF h = "track_location" /\ resp.status = 200
                       THEN [e \in Entities |-> NoRead]
                       ELSE IF h = "get_current_location"
                       THEN [reads EXCEPT ![req.path[4]] =
                                IF @.n = 0 THEN [n |-> 1, resp |-> resp]
                                ELSE [n |-> @.n + 1, resp |-> @.resp]]
                       ELSE reads
    /\ UNCHANGED progVars

Next ==
    \/ LoadConfig
    \/ CreatePool
    \/ RunMigrations
    \/ OpenRedis
    \/ SpawnBackground
    \/ StartServer
    \/ start_background_tasks
    \/ \E t \in TaskNames : RunTask(t)
    \/ \E req \in Requests : Serve(req)

Spec == Init /\ [][Next]_vars

-----------------------------------------------------------------------------
(* properties                                                              *)

Requested == last.seq > 0

InRange(s) == s.latitude \in -90..90 /\ s.longitude \in -180..180

(* the in-range samples of entity e that track_location answered with
   success after the first n submissions, in the order of submission *)
AcceptedSince(e, n) ==
    LET Keep(s) == s.user_id = e /\ InRange(s)
    IN  SelectSeq(SubSeq(submitted, n + 1, Len(submitted)), Keep)

Accepted(e) == AcceptedSince(e, 0)

(* the samples a reply carries *)
SamplesOf(body) == IF "samples" \in DOMAIN body THEN body.samples ELSE <<>>

(* C1: after accepted submissions for E with pairwise distinct captured_at,
   currentLocation(E) returns the sample with the maximum captured_at *)
C1_CurrentLocationIsLatest ==
    (Requested /\ last.handler = "get_current_location") =>
        LET acc == Accepted(last.req.path[4])
        IN  (/\ acc # <<>>
             /\ \A i, j \in 1..Len(acc) : i # j => acc[i].timestamp # acc[j].timestamp)
            => \E i \in 1..Len(acc) :
                  /\ \A j \in 1..Len(acc) : acc[j].timestamp <= acc[i].timestamp
                  /\ "latest_sample" \in DOMAIN last.resp.body
                  /\ last.resp.body.latest_sample = acc[i]

(* C2: a submission with latitude outside [-90, 90] or longitude outside
   [-180, 180] is rejected with OutOfRange and is never part of the
   accepted samples *)
C2_OutOfRangeRejected ==
    /\ (Requested /\ last.req.method = "POST" /\ last.req.path = TrackPath
          /\ last.req.body.kind = "sample" /\ ~InRange(last.req.body))
       => (last.resp.status = 400 /\ last.resp.body = [message |-> "OutOfRange"])
    /\ \A i \in 1..Len(submitted) : InRange(submitted[i])

(* C3: a sample submitted with captured_at earlier than an already accepted
   sample of the same entity is accepted and is part of the entity's
   history *)
C3_OutOfOrderInHistory ==
    (Requested /\ last.handler = "get_location_history") =>
        LET acc == Accepted(last.req.path[4])
        IN  \A i, j \in 1..Len(acc) :
               (i < j /\ acc[j].timestamp < acc[i].timestamp)
               => \E k \in 1..Len(SamplesOf(last.resp.body)) :
                     SamplesOf(last.resp.body)[k] = acc[j]

(* C4: history(E) over an unbounded range returns exactly the accepted
   samples of E, each once, in ascending captured_at order *)
C4_HistoryIsAccepted ==
    (Requested /\ last.handler = "get_location_history" /\ last.req.query = "") =>
        LET acc  == Accepted(last.req.path[4])
            page == SamplesOf(last.resp.body)
        IN  /\ "cursor" \notin DOMAIN last.resp.body
            /\ Len(page) = Len(acc)
            /\ {page[k] : k \in 1..Len(page)} = {acc[k] : k \in 1..Len(acc)}
            /\ \A k \in 1..(Len(page) - 1) : page[k].timestamp <= page[k + 1].timestamp

(* C5: whatever the capacity k of a subscriber's queue, once more than k
   events were published for its entity the subscriber's stream is one gap
   marker for the dropped events followed by the k newest events *)
C5_DropOldestWithGapMarker ==
    conn # NoConn =>
        LET events == AcceptedSince(conn.entity, conn.since)
            stream == SubscriberStream(conn)
        IN  \A k \in 1..MaxRequests :
               Len(events) > k =>
                  /\ Len(stream) = k + 1
                  /\ stream[1] = [kind |-> "gap", dropped |-> Len(events) - k]
                  /\ \A i \in 1..k : stream[i + 1] = events[Len(events) - k + i]

(* C6: for each entity, the EXIT events emitted for a registered geofence
   are exactly the contained -> not contained flips between consecutive
   accepted samples, and no other transition event is emitted *)
C6_OneExitPerFlip ==
    fence # NoFence =>
        \A e \in Entities :
           LET acc == AcceptedSince(e, fence.since)
               Abs(x) == IF x < 0 THEN -x ELSE x
               Max(x, y) == IF x < y THEN y ELSE x
               Meters(s) == 111195 * Max(Abs(s.latitude - fence.shape.latitude),
                                         Abs(s.longitude - fence.shape.longitude))
               Contained(s) == Meters(s) <= fence.shape.radius
               Exits == {i \in 1..(Len(acc) - 1) :
                            Contained(acc[i]) /\ ~Contained(acc[i + 1])}
               Enters == {i \in 1..(Len(acc) - 1) :
                            ~Contained(acc[i]) /\ Contained(acc[i + 1])}
               Emitted(kind) == {i \in 1..Len(GeofenceEventsEmitted) :
                                    /\ GeofenceEventsEmitted[i].entity_id = e
                                    /\ GeofenceEventsEmitted[i].transition_kind = kind}
           IN  /\ Cardinality(Emitted("EXIT")) = Cardinality(Exits)
               /\ Cardinality(Emitted("ENTER")) = Cardinality(Enters)

(* C7: reading currentLocation(E) again with no submission in between
   returns the result of the first such read and changes no state of the
   program *)
C7_CurrentLocationIdempotent ==
    [][(last' # last /\ last'.handler = "get_current_location")
        => /\ last'.resp = reads'[last'.req.path[4]].resp
           /\ UNCHANGED <<progVars, submitted, fence, conn>>]_vars

C7_Witness ==
    /\ submitted # <<>>
    /\ \E e \in Entities : reads[e].n >= 2
    /\ last.handler = "get_current_location"

Configs == {FromEnv(p, r) : p \in PortEnv, r \in RedisUrlEnv}

Handlers == {Routes[i].name : i \in 1..Len(Routes)}

RequestsOf == [h \in Handlers |-> {req \in Requests : Dispatch(req) = h}]

(* C8: every handler answers every request, whatever its body, path
   parameter, query and AppState, with the same success payload and leaves
   the program unchanged; a background service method changes nothing but
   the completion of its own task *)
C8_StaticPlaceholders ==
    [][/\ (last' # last /\ last'.handler # NoRoute)
          => /\ last'.resp.status = 200
             /\ \A req \in RequestsOf[last'.handler], c \in Configs :
                   Respond(last'.handler, req, c) = last'.resp
       /\ last' # last => UNCHANGED progVars
       /\ \A t \in TaskNames :
             (tasks[t] = "spawned" /\ tasks'[t] = "done")
             => /\ UNCHANGED <<pc, err, config, bg, observed>>
                /\ \A u \in TaskNames \ {t} : tasks'[u] = tasks[u]]_vars

C8_Witness ==
    /\ last.seq = MaxRequests
    /\ last.handler = "track_location"
    /\ last.req.body.latitude = 95
    /\ \A t \in TaskNames : tasks[t] = "done"

StartupOrder == <<"start", "config", "pool", "migrated", "redis", "spawned", "serving">>

(* C9: requests are served and background tasks are spawned only after the
   configuration, the pool, the migrations and the Redis client succeeded
   in that order; a failed step ends main with its error and nothing runs
   after it *)
C9_StartupOrdering ==
    [][/\ pc' # pc =>
             \/ \E i \in 1..(Len(StartupOrder) - 1) :
                   pc = StartupOrder[i] /\ pc' = StartupOrder[i + 1] /\ err' = "none"
             \/ /\ pc \in {"start", "config", "pool", "migrated"}
                /\ pc' = "exited"
                /\ err' # "none"
       /\ (bg' # "unspawned" \/ served' > 0 \/ \E t \in TaskNames : tasks'[t] # "unspawned")
          => /\ pc' \in {"spawned", "serving"}
             /\ err' = "none"
             /\ config'.port \in 0..U16Max
             /\ RedisOpenOk(config'.redis_url)
       /\ served' > 0 => pc' = "serving"
       /\ err # "none" => (pc = "exited" /\ UNCHANGED vars)]_vars

C9_Witness ==
    /\ pc = "serving"
    /\ served > 0
    /\ config.port = 80
    /\ \A t \in TaskNames : tasks[t] = "done"

(* C10: a GET of /health/ready is answered by readiness_check with status
   "ready", and a GET of /health by health_check *)
C10_ReadyRouteAnswers ==
    (Requested /\ last.req.method = "GET") =>
        /\ last.req.path = <<"health", "ready">>
           => (last.handler = "readiness_check" /\ last.resp.body.status = "ready")
        /\ last.req.path = <<"health">> => last.handler = "health_check"

====
